---- MODULE Spec2Model ----
(***************************************************************************)
(* Model of gtg ("Go task group"): the deduplicating task registry         *)
(* (taskGroup.Task), the per-task run/finalize protocol, the multi-wait    *)
(* (waitGroup) and the composition helpers Wait, MustWait, Opt, Ser, Par   *)
(* and Run.  Every goroutine is a thread with a program counter; a step of *)
(* the model is one access to shared memory (the registry mutex, the       *)
(* registry map, a task's err field, errLock or done channel, the group    *)
(* context) together with the goroutine-local code that follows it.        *)
(***************************************************************************)
EXTENDS Integers, Sequences, FiniteSets, TLC

(***************************************************************************)
(* Bounds.                                                                 *)
(***************************************************************************)
\* Number of task objects that can be allocated (the heap of *task).
MaxTasks == 7
\* Number of Task()/Wait() calls each outside caller makes.
MaxCalls == 2

(***************************************************************************)
(* Threads.  0 is the goroutine that calls Run; 1..MaxTasks are the        *)
(* goroutines started by `go created.run()`, one per task object;          *)
(* the outside callers come after them.                                    *)
(***************************************************************************)
NoThread == 0 - 1
MainThread == 0
TaskIds == 1..MaxTasks
Callers == {MaxTasks + 1, MaxTasks + 2}
Threads == {MainThread} \cup TaskIds \cup Callers
\* nil *task
NoTask == 0

(***************************************************************************)
(* Errors.  nil is the empty sequence; a non-nil error is the sequence of  *)
(* its layers, outermost first: fmt.Errorf("...%w", e) puts one layer in   *)
(* front of e, errors.Unwrap takes it off.                                 *)
(***************************************************************************)
NoErr == << >>
NoName == << >>
Layer(tag, name, val) == [tag |-> tag, name |-> name, val |-> val]
\* fmt.Errorf(`...`) without %w, made by the task function `f`
NewErr(f) == << Layer("base", NoName, f) >>
\* context.Canceled
Canceled == << Layer("base", NoName, "context canceled") >>
\* runtime.PanicNilError (what recover() yields for panic(nil) since go 1.21)
PanicNilError == << Layer("base", NoName, "panic called with nil argument") >>
Unwrap(e) == IF e = NoErr THEN NoErr ELSE Tail(e)
\* errors.Is(e, target)
ErrorsIs(e, target) ==
    /\ target # NoErr
    /\ \E i \in 1..Len(e) : SubSeq(e, i, Len(e)) = target

(***************************************************************************)
(* Panic payloads: the value handed to panic() and returned by recover().  *)
(***************************************************************************)
NoPanic == [kind |-> "none", e |-> NoErr, v |-> ""]
PanicErr(e) == [kind |-> "error", e |-> e, v |-> ""]
PanicVal(v) == [kind |-> "value", e |-> NoErr, v |-> v]
\* panic(nil)
PanicNil == [kind |-> "nil", e |-> NoErr, v |-> ""]

(***************************************************************************)
(* Task functions.  A TaskFunc value is a name of Funs; Body gives the     *)
(* code it runs.  Static functions are the leaves and the functions of     *)
(* examples/diamond.go; every closure made by Opt, Ser or Par at one call  *)
(* site is one more value (a closure has its own identity).                *)
(***************************************************************************)
\* what a piece of a function body does next: return e, panic with p, or
\* ask the group for the task of another function
Ret(e) == [act |-> "ret", ret |-> e, pan |-> NoPanic, fun |-> ""]
Pan(p) == [act |-> "pan", ret |-> NoErr, pan |-> p, fun |-> ""]
Call(f) == [act |-> "call", ret |-> NoErr, pan |-> NoPanic, fun |-> f]
\* the function has not returned yet
NoExit == [act |-> "none", ret |-> NoErr, pan |-> NoPanic, fun |-> ""]
\* what a leaf function may do: return nil, return an error, or panic
AnyOutcome(f) ==
    { Ret(NoErr), Ret(NewErr(f)), Pan(PanicErr(NewErr(f))),
      Pan(PanicVal("boom")), Pan(PanicNil) }
RetOutcome(f) == { Ret(NoErr), Ret(NewErr(f)) }

Fn(kind, args, outs) == [kind |-> kind, args |-> args, outs |-> outs]
Leaf(outs) == Fn("Leaf", << >>, outs)

\* func TaskFuncDoneErr(ctx Task) error { waitDone(ctx); return ctx.Err() }
TaskFuncDoneErr == Fn("CtxWait", << >>, {})
\* func TaskFuncImmediateErr(Task) error { return fmt.Errorf(`immediate error`) }
TaskFuncImmediateErr(f) == Leaf({ Ret(NewErr(f)) })
\* func(ctx Task) error { waitDone(ctx); return sentinel }
TaskFuncDoneSentinel(f) == Fn("CtxWait", << >>, { Ret(NewErr(f)) })
\* func(task Task) error { g.MustWait(task, fun); return nil }
MustWaitFn(fun) == Fn("MustWait", << fun >>, {})
\* func(task Task) error { return Wait(task, fun) }
WaitFn(fun) == Fn("Wait", << fun >>, {})
Opt(fun) == Fn("Opt", << fun >>, {})
Ser(funs) == Fn("Ser", funs, {})
Par(funs) == Fn("Par", funs, {})
\* the general path of Par alone: makeWaitGroup, add every task, wait
MultiWait(funs) == Fn("MultiWait", funs, {})

FunList ==
    << "A", "B", "C", "D", "ParBC", "OptD",
       "X", "Y", "Z", "W", "V", "F",
       "OptX", "SerXYZ", "ParXYX", "ParFWV", "ParXYW",
       "A2", "B2", "C2", "D2", "OptB2",
       "Par0", "Par1", "MultiWait0", "MultiWait1", "WaitX", "Par00", "Par3", "ParA2D2",
       "S", "Self", "CycA", "CycB", "SerSelf", "a",
       "Nop0", "Nop1", "SerNop", "ParNop", "ParSerPar" >>
Funs == { FunList[i] : i \in 1..Len(FunList) }

Body ==
    [ f \in Funs |->
        CASE f = "A" -> MustWaitFn("ParBC")
          [] f = "B" -> MustWaitFn("D")
          [] f = "C" -> MustWaitFn("OptD")
          [] f = "D" -> TaskFuncImmediateErr("D")
          [] f = "ParBC" -> Par(<< "B", "C" >>)
          [] f = "OptD" -> Opt("D")
          [] f = "X" -> Leaf(AnyOutcome("X"))
          [] f = "Y" -> Leaf(RetOutcome("Y"))
          [] f = "Z" -> Leaf(RetOutcome("Z"))
          [] f = "W" -> TaskFuncDoneErr
          [] f = "V" -> TaskFuncDoneErr
          [] f = "F" -> TaskFuncImmediateErr("F")
          [] f = "OptX" -> Opt("X")
          [] f = "SerXYZ" -> Ser(<< "X", "Y", "Z" >>)
          [] f = "ParXYX" -> Par(<< "X", "Y", "X" >>)
          [] f = "ParFWV" -> Par(<< "F", "W", "V" >>)
          [] f = "ParXYW" -> Par(<< "X", "Y", "W" >>)
          [] f = "A2" -> Par(<< "B2", "C2" >>)
          [] f = "B2" -> TaskFuncImmediateErr("B2")
          [] f = "C2" -> Leaf(RetOutcome("C2"))
          [] f = "D2" -> Par(<< "OptB2", "C2" >>)
          [] f = "OptB2" -> Opt("B2")
          [] f = "Par0" -> Par(<< >>)
          [] f = "Par1" -> Par(<< "X" >>)
          [] f = "MultiWait0" -> MultiWait(<< >>)
          [] f = "MultiWait1" -> MultiWait(<< "X" >>)
          [] f = "WaitX" -> WaitFn("X")
          [] f = "ParA2D2" -> Par(<< "A2", "D2" >>)
          [] f = "Par00" -> Par(<< "Par0", "MultiWait0" >>)
          [] f = "Par3" -> Par(<< "Par1", "MultiWait1", "WaitX" >>)
          [] f = "S" -> TaskFuncDoneSentinel("S")
          [] f = "Self" -> WaitFn("Self")
          [] f = "SerSelf" -> Ser(<< "Z", "SerSelf" >>)
          [] f = "CycA" -> WaitFn("CycB")
          [] f = "CycB" -> Par(<< "CycA", "Y" >>)
          [] f = "a" -> Leaf({ Ret(NoErr) })
          [] f = "Nop0" -> Leaf({ Ret(NoErr) })
          [] f = "Nop1" -> Leaf({ Ret(NoErr) })
          [] f = "SerNop" -> Ser(<< "Nop0", "Nop1" >>)
          [] f = "ParNop" -> Par(<< "Nop0", "Nop1" >>)
          [] f = "ParSerPar" -> Par(<< "SerNop", "ParNop" >>) ]

(***************************************************************************)
(* Names and identity of task functions.  A name is the sequence of its    *)
(* tokens, "." being a token of its own.                                   *)
(***************************************************************************)
\* runtime.FuncForPC(...).Name(): "main.A", "github.com/mitranim/gtg.Par.func1"
longName(f) ==
    IF Body[f].kind \in {"Opt", "Ser", "Par"}
    THEN << "gtg", ".", Body[f].kind, ".", "func1" >>
    ELSE << "main", ".", f >>

\* strings.LastIndex(name, "."), 1-based, 0 when absent
LastIndex(name, ch) ==
    IF \E i \in 1..Len(name) : name[i] = ch
    THEN CHOOSE i \in 1..Len(name) :
            /\ name[i] = ch
            /\ \A j \in (i + 1)..Len(name) : name[j] # ch
    ELSE 0

funcShortName(name) ==
    LET ind == LastIndex(name, ".")
    IN  IF ind >= 1 THEN SubSeq(name, ind + 1, Len(name)) ELSE name

ShortName(f) == funcShortName(longName(f))

\* TaskFunc.id(): the address of the function value
id(f) == 4096 + 8 * (CHOOSE i \in 1..Len(FunList) : FunList[i] = f)
FunIds == { id(f) : f \in Funs }

(***************************************************************************)
(* Programs: the root function handed to Run, what each of the two outside *)
(* callers may ask the group for, and whether the process ends when Run    *)
(* returns (examples/diamond.go: main is MustRun alone), and whether the   *)
(* context handed to Run is one that its owner may cancel (TestRun).       *)
(***************************************************************************)
Op(op, fun) == [op |-> op, fun |-> fun]
Program(root, ops, exits) ==
    [root |-> root, ops |-> ops, exits |-> exits, cancel |-> FALSE]
\* ctx, cancel := context.WithCancel(context.Background()); go cancel()
WithCancel(p) == [p EXCEPT !.cancel = TRUE]
NoOps == << {}, {} >>
Programs ==
    { Program("A", NoOps, TRUE),
      Program("OptX", << { Op("Task", "X") }, { Op("Wait", "X") } >>, FALSE),
      Program("SerXYZ", NoOps, FALSE),
      Program("ParXYX", NoOps, FALSE),
      Program("ParXYW", NoOps, FALSE),
      Program("ParFWV", NoOps, FALSE),
      Program("ParA2D2", NoOps, FALSE),
      Program("Par00", NoOps, FALSE),
      Program("Par3", NoOps, FALSE),
      WithCancel(Program("W", NoOps, FALSE)),
      WithCancel(Program("S", << { Op("Task", "S") }, {} >>, FALSE)),
      WithCancel(Program("X", NoOps, FALSE)),
      Program("Self", << {}, { Op("Wait", "Self") } >>, FALSE),
      Program("SerSelf", NoOps, FALSE),
      Program("CycA", NoOps, FALSE),
      Program("ParSerPar", NoOps, FALSE) }

VARIABLES
    prog,      \* the program being run
    mutex,     \* taskGroup.Mutex: the thread holding it, or NoThread
    tasks,     \* taskGroup.tasks: function id -> task, NoTask when absent
    tk,        \* the task objects: fun, done, err, errLock
    nextTask,  \* the next task object to allocate
    ctxDone,   \* taskGroup.ctx is cancelled
    pc,        \* where each thread is
    loc,       \* the local variables of each thread
    hist,      \* what each outside caller has been returned so far
    runs,      \* how many times the body of each function was entered
    writes,    \* how many times each task's err field was assigned
    closes,    \* how many times each task's done channel was closed
    got,       \* every (function, task) pair that Task() has returned
    logged,    \* the errors written by Log, in order
    crashed,   \* a panic left a goroutine (the process dies)
    exited,    \* main has returned
    cli        \* a call of Choose: its arguments and, once made, its results

vars == << prog, mutex, tasks, tk, nextTask, ctxDone, pc, loc, hist,
           runs, writes, closes, got, logged, crashed, exited, cli >>

NoFun == ""
\* Contexts: taskGroup.ctx (in Run, the child made by context.WithCancel),
\* context.Background(), and the nil context of a task that does not exist.
GroupCtx == "group"
Background == "background"
NoCtx == ""
\* (mutant) only the task of the root function is given the context
newTaskRootOnly(ctx, fun) ==
    [ctx |-> IF fun = prog.root THEN ctx ELSE Background, fun |-> fun,
     done |-> FALSE, err |-> NoErr, errLock |-> NoThread]
\* (mutant) the task is not given the context of the group
newTaskBackground(ctx, fun) ==
    [ctx |-> Background, fun |-> fun, done |-> FALSE, err |-> NoErr,
     errLock |-> NoThread]
\* &task{ctx: ctx, taskGroup: group, fun: fun, done: make(chan struct{})}
newTask(ctx, fun) ==
    [ctx |-> ctx, fun |-> fun, done |-> FALSE, err |-> NoErr,
     errLock |-> NoThread]
NullTask == newTask(NoCtx, NoFun)

EmptyLoc ==
    [ callee |-> NoFun, ret |-> NoTask, i |-> 0, wait |-> FALSE,
      wgTasks |-> << >>, wgCases |-> << >>, cur |-> NoTask,
      val |-> NoErr, pan |-> NoPanic, exit |-> NoExit, late |-> FALSE ]

\* the state of a group that Run is about to start on
InitGroup ==
    /\ prog \in Programs
    /\ mutex = NoThread
    /\ tasks = [ k \in FunIds |-> NoTask ]
    /\ tk = [ t \in TaskIds |-> NullTask ]
    /\ nextTask = 1
    /\ ctxDone = FALSE
    /\ pc = [ th \in Threads |->
                IF th = MainThread THEN "Run"
                ELSE IF th \in Callers THEN "idle" ELSE "none" ]
    /\ loc = [ th \in Threads |-> EmptyLoc ]
    /\ hist = [ c \in Callers |-> << >> ]
    /\ runs = [ f \in Funs |-> 0 ]
    /\ writes = [ t \in TaskIds |-> 0 ]
    /\ closes = [ t \in TaskIds |-> 0 ]
    /\ got = {}
    /\ logged = << >>
    /\ crashed = FALSE
    /\ exited = FALSE

\* no call of Choose
NoCli ==
    [names |-> << >>, funs |-> << >>, called |-> FALSE, fun |-> NoFun,
     err |-> NoErr]

Init ==
    /\ InitGroup
    /\ cli = NoCli

\* the function a task thread runs, and the kind of code a thread executes
FunOf(th) == tk[th].fun
Kind(th) ==
    IF th = MainThread THEN "Run"
    ELSE IF th \in Callers THEN "Call"
    ELSE Body[FunOf(th)].kind
Args(th) == Body[FunOf(th)].args

(***************************************************************************)
(* The helpers of the public API, as what they do with the error that      *)
(* Wait returned.                                                          *)
(***************************************************************************)
\* (mutant) Must lets the error go
MustNever(err) == NoPanic
\* Must: panics if the error is non-nil
Must(err) == IF err # NoErr THEN PanicErr(err) ELSE NoPanic
\* Log: the lines it writes
Log(err) == IF err # NoErr THEN << err >> ELSE << >>
\* func(task Task) error { g.MustWait(task, fun); return nil }
MustWaitBody(err) == IF Must(err) # NoPanic THEN Pan(Must(err)) ELSE Ret(NoErr)
\* (mutant) Opt passes the error on
OptBodyPropagates(err) == Ret(err)
\* Opt's closure: Log(Wait(task, fun)); return nil
OptBody(err) == Ret(NoErr)
\* (mutant) Ser returns after its first function
SerBodyFirstOnly(err, i, funs) == Ret(err)
\* (mutant) Ser goes on after an error and returns the last one
SerBodyGoesOn(err, i, funs) ==
    IF i < Len(funs) THEN Call(funs[i + 1]) ELSE Ret(err)
\* Ser's closure, after Wait(task, funs[i]) returned err
SerBody(err, i, funs) ==
    IF err # NoErr THEN Ret(err)
    ELSE IF i < Len(funs) THEN Call(funs[i + 1])
    ELSE Ret(NoErr)
\* (mutant) Par with one function starts it and does not report its error
ParOneNil(err) == Ret(NoErr)
\* Par's closure with one function: return Wait(task, funs[0])
ParOne(err) == Ret(err)

\* what a function body does after its Wait(task, fun) returned err
AfterWait(kind, args, i, err) ==
    CASE kind = "Wait" -> Ret(err)
      [] kind = "MustWait" -> MustWaitBody(err)
      [] kind = "Opt" -> OptBody(err)
      [] kind = "Ser" -> SerBody(err, i, args)
      [] kind = "Par" -> ParOne(err)

\* the first thing a function body does
Enter(kind, args) ==
    CASE kind \in {"Wait", "MustWait", "Opt"} -> Call(args[1])
      [] kind = "Ser" ->
           IF Len(args) = 0 THEN Ret(NoErr) ELSE Call(args[1])
      [] kind = "Par" ->
           IF Len(args) = 0 THEN Ret(NoErr) ELSE Call(args[1])
      [] kind = "MultiWait" -> Call(args[1])

\* the thread goes on as `out` says: the function returns (run() goes on to
\* store the result), panics (run() unwinds into finalize), or calls Task()
Apply(l, out) ==
    CASE out.act = "ret" ->
           [pc |-> "RunStore", loc |-> [l EXCEPT !.val = out.ret, !.exit = out]]
      [] out.act = "pan" ->
           [pc |-> "finalize", loc |-> [l EXCEPT !.pan = out.pan, !.exit = out]]
      [] out.act = "call" ->
           [pc |-> "TaskLock",
            loc |-> [l EXCEPT !.callee = out.fun, !.i = l.i + 1, !.wait = TRUE]]

(***************************************************************************)
(* taskGroup.Task: Lock; lookup; (newTask; store; go run;) Unlock.         *)
(***************************************************************************)
\* (mutant) Task() does not take the mutex
CanLockUnguarded(m) == TRUE
\* sync.Mutex.Lock() can go on
CanLock(m) == m = NoThread
\* (mutant) a finished task is forgotten, the function is run again
ExistingUnfinished(ts, fun) ==
    IF ts[id(fun)] # NoTask /\ tk[ts[id(fun)]].done THEN NoTask ELSE ts[id(fun)]
\* existing := self.tasks[id]
Existing(ts, fun) == ts[id(fun)]

\* self.Lock(); id := fun.id(); existing := self.tasks[id]
TaskLock(th) ==
    /\ pc[th] = "TaskLock"
    /\ CanLock(mutex)
    /\ mutex' = th
    /\ LET existing == Existing(tasks, loc[th].callee)
       IN  IF existing # NoTask
           THEN /\ loc' = [loc EXCEPT ![th].ret = existing]
                /\ pc' = [pc EXCEPT ![th] = "TaskUnlock"]
           ELSE /\ loc' = [loc EXCEPT ![th].ret = NoTask]
                /\ pc' = [pc EXCEPT ![th] = "TaskCreate"]
    /\ UNCHANGED << cli, prog, tasks, tk, nextTask, ctxDone, hist, runs,
                    writes, closes, got, logged, crashed, exited >>

\* (mutant) the new task is launched without being stored
StoreNothing(ts, fun, created) == ts
\* the registry with the new task stored: self.tasks[id] = created
Store(ts, fun, created) == [ts EXCEPT ![id(fun)] = created]

\* created := newTask(self.ctx, self, fun); self.tasks[id] = created
TaskCreate(th) ==
    /\ pc[th] = "TaskCreate"
    /\ nextTask <= MaxTasks
    /\ tk' = [tk EXCEPT ![nextTask] = newTask(GroupCtx, loc[th].callee)]
    /\ tasks' = Store(tasks, loc[th].callee, nextTask)
    /\ loc' = [loc EXCEPT ![th].ret = nextTask]
    /\ nextTask' = nextTask + 1
    /\ pc' = [pc EXCEPT ![th] = "TaskGo"]
    /\ UNCHANGED << cli, prog, mutex, ctxDone, hist, runs, writes, closes, got,
                    logged, crashed, exited >>

\* (mutant) Par waits for its first task before it asks for the next one
UsesWaitGroupMultiWaitOnly(th) == Kind(th) = "MultiWait"
\* the thread builds a waitGroup out of the tasks it asks for
UsesWaitGroup(th) ==
    \/ Kind(th) = "MultiWait"
    \/ Kind(th) = "Par" /\ Len(Args(th)) >= 2

\* for len(self.cases) > 0 { ... }; return nil
waitHead(l) ==
    IF Len(l.wgCases) > 0
    THEN [pc |-> "wgSelect", loc |-> l]
    ELSE Apply(l, Ret(NoErr))

\* waitGroup.add
add(l, task) ==
    [l EXCEPT !.wgTasks = Append(l.wgTasks, task),
              !.wgCases = Append(l.wgCases, task)]

Record(l) ==
    [fun |-> l.callee, task |-> l.ret, waited |-> l.wait, err |-> l.val,
     late |-> l.late]

\* (mutant) Task() returns with the mutex still locked
UnlockNever(th) == th
\* defer self.Unlock()
Unlock(th) == NoThread

\* defer self.Unlock(); return ...; and what the caller of Task() does with
\* the task: Par adds it to its waitGroup and asks for the next one,
\* everyone else goes on to wait for it (Wait), an outside caller of Task()
\* just keeps it
TaskReturn(th, pcs) ==
    /\ mutex' = Unlock(th)
    /\ got' = got \cup { << loc[th].callee, loc[th].ret >> }
    /\ IF UsesWaitGroup(th)
       THEN LET added == add(loc[th], loc[th].ret)
                i == loc[th].i
            IN  IF i < Len(Args(th))
                THEN /\ loc' = [loc EXCEPT ![th] =
                                  [added EXCEPT !.i = i + 1,
                                                !.callee = Args(th)[i + 1]]]
                     /\ pc' = [pcs EXCEPT ![th] = "TaskLock"]
                     /\ hist' = hist
                ELSE /\ loc' = [loc EXCEPT ![th] = waitHead(added).loc]
                     /\ pc' = [pcs EXCEPT ![th] = waitHead(added).pc]
                     /\ hist' = hist
       ELSE IF Kind(th) = "Call" /\ ~loc[th].wait
       THEN /\ hist' = [hist EXCEPT ![th] = Append(@, Record(loc[th]))]
            /\ pc' = [pcs EXCEPT ![th] = "idle"]
            /\ loc' = loc
       ELSE /\ pc' = [pcs EXCEPT ![th] = "waitDone"]
            /\ loc' = loc
            /\ hist' = hist
    /\ UNCHANGED << cli, prog, tasks, tk, nextTask, ctxDone, runs, writes,
                    closes, logged, crashed, exited >>

\* an existing task is returned
TaskUnlock(th) ==
    /\ pc[th] = "TaskUnlock"
    /\ TaskReturn(th, pc)

\* go created.run(): the goroutine of the new task exists from here on
Go(pcs, created) == [pcs EXCEPT ![created] = "run"]

\* go created.run(); return created
TaskGo(th) ==
    /\ pc[th] = "TaskGo"
    /\ TaskReturn(th, Go(pc, loc[th].ret))

(***************************************************************************)
(* task.run: the function is called on the task's own goroutine.           *)
(***************************************************************************)
run(th) ==
    /\ pc[th] = "run"
    /\ runs' = [runs EXCEPT ![FunOf(th)] = @ + 1]
    /\ LET next ==
             CASE Kind(th) = "Leaf" -> [pc |-> "leaf", loc |-> loc[th]]
               [] Kind(th) = "CtxWait" -> [pc |-> "ctxWait", loc |-> loc[th]]
               [] Kind(th) = "MultiWait" /\ Len(Args(th)) = 0 ->
                    waitHead(loc[th])
               [] OTHER -> Apply(loc[th], Enter(Kind(th), Args(th)))
       IN  /\ pc' = [pc EXCEPT ![th] = next.pc]
           /\ loc' = [loc EXCEPT ![th] = next.loc]
    /\ UNCHANGED << cli, prog, mutex, tasks, tk, nextTask, ctxDone, hist, writes,
                    closes, got, logged, crashed, exited >>

\* a leaf function returns or panics
leaf(th) ==
    /\ pc[th] = "leaf"
    /\ \E out \in Body[FunOf(th)].outs :
         /\ pc' = [pc EXCEPT ![th] = Apply(loc[th], out).pc]
         /\ loc' = [loc EXCEPT ![th] = Apply(loc[th], out).loc]
    /\ UNCHANGED << cli, prog, mutex, tasks, tk, nextTask, ctxDone, hist, runs,
                    writes, closes, got, logged, crashed, exited >>

\* <-ctx.Done() can go on, for the context a task function was handed
CtxIsDone(ctx) == ctx = GroupCtx /\ ctxDone
\* ctx.Err() of a context that is done
CtxErr(ctx) == Canceled

\* (mutant) the function is handed the task itself: Done() is the task's
insideDoneOwn(t) == tk[t].done
\* the view of task t from the inside, struct{ctx; *taskGroup}{self.ctx,
\* self.taskGroup}: Done() and Err() are those of the embedded self.ctx
insideDone(t) == CtxIsDone(tk[t].ctx)
insideErr(t) == IF CtxIsDone(tk[t].ctx) THEN CtxErr(tk[t].ctx) ELSE NoErr

\* TaskFuncDoneErr: waitDone(ctx); return ctx.Err(), ctx being the inside
\* view of the task; the sentinel variant returns its own error instead
ctxWait(th) ==
    /\ pc[th] = "ctxWait"
    /\ insideDone(th)
    /\ \E out \in (IF Body[FunOf(th)].outs = {}
                    THEN { Ret(insideErr(th)) }
                    ELSE Body[FunOf(th)].outs) :
         /\ pc' = [pc EXCEPT ![th] = Apply(loc[th], out).pc]
         /\ loc' = [loc EXCEPT ![th] = Apply(loc[th], out).loc]
    /\ UNCHANGED << cli, prog, mutex, tasks, tk, nextTask, ctxDone, hist, runs,
                    writes, closes, got, logged, crashed, exited >>

(***************************************************************************)
(* waitFor(task): <-ctx.Done(); return ctx.Err(), on the outside view.     *)
(***************************************************************************)
\* (mutant) Done() is left to the embedded context as well
IsDoneAsContext(t) == tk[t].done \/ CtxIsDone(tk[t].ctx)
\* task.Done() is closed
IsDone(t) == tk[t].done
\* task.Err() can take errLock
CanErr(t) == tk[t].errLock = NoThread
\* (mutant) Err() is left to the embedded context
ErrOfContext(t) == IF CtxIsDone(tk[t].ctx) THEN CtxErr(tk[t].ctx) ELSE NoErr
\* task.Err()
Err(t) == tk[t].err

waitDone(th) ==
    /\ pc[th] = "waitDone"
    /\ IsDone(loc[th].ret)
    /\ pc' = [pc EXCEPT ![th] = "waitErr"]
    /\ UNCHANGED << cli, prog, mutex, tasks, tk, nextTask, ctxDone, loc, hist,
                    runs, writes, closes, got, logged, crashed, exited >>

waitErr(th) ==
    /\ pc[th] = "waitErr"
    /\ CanErr(loc[th].ret)
    /\ LET err == Err(loc[th].ret)
           l == [loc[th] EXCEPT !.val = err]
       IN  CASE Kind(th) = "Run" ->
                  /\ pc' = [pc EXCEPT ![th] = "RunCancel"]
                  /\ loc' = [loc EXCEPT ![th] = l]
                  /\ UNCHANGED << hist, logged >>
             [] Kind(th) = "Call" ->
                  /\ pc' = [pc EXCEPT ![th] = "idle"]
                  /\ loc' = [loc EXCEPT ![th] = l]
                  /\ hist' = [hist EXCEPT ![th] = Append(@, Record(l))]
                  /\ UNCHANGED logged
             [] OTHER ->
                  LET next == Apply(loc[th],
                                    AfterWait(Kind(th), Args(th), loc[th].i, err))
                  IN  /\ pc' = [pc EXCEPT ![th] = next.pc]
                      /\ loc' = [loc EXCEPT ![th] = next.loc]
                      /\ logged' = IF Kind(th) = "Opt"
                                   THEN logged \o Log(err) ELSE logged
                      /\ hist' = hist
    /\ UNCHANGED << cli, prog, mutex, tasks, tk, nextTask, ctxDone, runs, writes,
                    closes, got, crashed, exited >>

(***************************************************************************)
(* waitGroup.wait and waitGroup.remove.                                    *)
(***************************************************************************)
\* copy(s[index:], s[index+1:]); s = s[:len(s)-1]
RemoveAt(s, index) ==
    [ j \in 1..(Len(s) - 1) |-> IF j < index THEN s[j] ELSE s[j + 1] ]

\* (mutant) the entry at index is removed, the first task is returned
removeFirst(l, index) ==
    [l EXCEPT !.cur = l.wgTasks[1],
              !.wgTasks = RemoveAt(l.wgTasks, index),
              !.wgCases = RemoveAt(l.wgCases, index)]
\* (mutant) the cases are cut by one without the copy: the last case goes
removeLastCase(l, index) ==
    [l EXCEPT !.cur = l.wgTasks[index],
              !.wgTasks = RemoveAt(l.wgTasks, index),
              !.wgCases = RemoveAt(l.wgCases, Len(l.wgCases))]
\* waitGroup.remove: the task at index, and the two lists without it
remove(l, index) ==
    [l EXCEPT !.cur = l.wgTasks[index],
              !.wgTasks = RemoveAt(l.wgTasks, index),
              !.wgCases = RemoveAt(l.wgCases, index)]

\* (mutant) a receive from a closed channel does not proceed
ReadyNever(cases) == {}
\* (mutant) the wait goes on only when every watched task is done
ReadyWhenAll(cases) ==
    IF \A index \in 1..Len(cases) : IsDone(cases[index])
    THEN 1..Len(cases) ELSE {}
\* reflect.Select(self.cases): the cases that can proceed (closed channels)
Ready(cases) == { index \in 1..Len(cases) : IsDone(cases[index]) }

\* (mutant) the wait returns at the first task that is done
WaitAlwaysFails(err) == TRUE
\* (mutant) the wait goes on to the next task whatever the error
WaitNeverFails(err) == FALSE
\* err := task.Err(); if err != nil { return err }
WaitFails(err) == err # NoErr

\* index, _, _ := reflect.Select(self.cases); task := self.remove(index)
wgSelect(th) ==
    /\ pc[th] = "wgSelect"
    /\ \E index \in Ready(loc[th].wgCases) :
         loc' = [loc EXCEPT ![th] = remove(loc[th], index)]
    /\ pc' = [pc EXCEPT ![th] = "wgErr"]
    /\ UNCHANGED << cli, prog, mutex, tasks, tk, nextTask, ctxDone, hist, runs,
                    writes, closes, got, logged, crashed, exited >>

wgErr(th) ==
    /\ pc[th] = "wgErr"
    /\ CanErr(loc[th].cur)
    /\ LET err == Err(loc[th].cur)
           next == IF WaitFails(err)
                   THEN Apply(loc[th], Ret(err))
                   ELSE waitHead(loc[th])
       IN  /\ pc' = [pc EXCEPT ![th] = next.pc]
           /\ loc' = [loc EXCEPT ![th] = next.loc]
    /\ UNCHANGED << cli, prog, mutex, tasks, tk, nextTask, ctxDone, hist, runs,
                    writes, closes, got, logged, crashed, exited >>

(***************************************************************************)
(* task.run after the function returned, and task.finalize.                *)
(***************************************************************************)
\* (mutant) close(self.done) runs before the body of finalize
NextDeferredCloseFirst(step) ==
    CASE step = "RunUnlock" -> "closeDone"
      [] step = "closeDone" -> "finalize"
      [] step = "finalize" -> "end"
\* the deferred calls of run and finalize, last deferred first:
\* errLock.Unlock(), the body of finalize, close(self.done)
NextDeferred(step) ==
    CASE step = "RunUnlock" -> "finalize"
      [] step = "finalize" -> "closeDone"
      [] step = "closeDone" -> "end"

\* self.errLock.Lock(); self.err = err
RunStore(th) ==
    /\ pc[th] = "RunStore"
    /\ tk[th].errLock = NoThread
    /\ tk' = [tk EXCEPT ![th].errLock = th, ![th].err = loc[th].val]
    /\ writes' = [writes EXCEPT ![th] = @ + 1]
    /\ pc' = [pc EXCEPT ![th] = "RunUnlock"]
    /\ UNCHANGED << cli, prog, mutex, tasks, nextTask, ctxDone, loc, hist, runs,
                    closes, got, logged, crashed, exited >>

\* defer self.errLock.Unlock()
RunUnlock(th) ==
    /\ pc[th] = "RunUnlock"
    /\ tk' = [tk EXCEPT ![th].errLock = NoThread]
    /\ pc' = [pc EXCEPT ![th] = NextDeferred("RunUnlock")]
    /\ UNCHANGED << cli, prog, mutex, tasks, nextTask, ctxDone, loc, hist, runs,
                    writes, closes, got, logged, crashed, exited >>

\* (mutant) the layer of the task is put under the error, not around it
WrapInside(tag, name, err) == err \o << Layer(tag, name, "") >>
\* fmt.Errorf(`task %q ...: %w`, name, err)
Wrap(tag, name, err) == << Layer(tag, name, "") >> \o err

\* what recover() may return for the payload in flight: the payload; for
\* panic(nil) either nil (go < 1.21, GODEBUG=panicnil=1) or a
\* *runtime.PanicNilError
recover(pan) ==
    IF pan.kind = "nil" THEN { NoPanic, PanicErr(PanicNilError) } ELSE { pan }

\* finalize reaches recover() only when self.err is nil
Recovers(err) == err = NoErr

\* (mutant) finalize leaves the error of the function as it is
finalErrUnwrapped(err, name, val) ==
    IF err # NoErr THEN err
    ELSE IF val.kind = "error" /\ val.e # NoErr THEN Wrap("panicked", name, val.e)
    ELSE IF val.kind = "value" THEN << Layer("panicval", name, val.v) >>
    ELSE err
\* the value of self.err when finalize is over; val is what recover() gave
finalErr(err, name, val) ==
    IF err # NoErr THEN Wrap("finished", name, err)
    ELSE IF val.kind = "error" /\ val.e # NoErr THEN Wrap("panicked", name, val.e)
    ELSE IF val.kind = "value" THEN << Layer("panicval", name, val.v) >>
    ELSE err

finalize(th) ==
    /\ pc[th] = "finalize"
    /\ \E val \in recover(loc[th].pan) :
         LET err == tk[th].err
             new == finalErr(err, ShortName(FunOf(th)), val)
         IN  /\ tk' = [tk EXCEPT ![th].err = new]
             /\ writes' = [writes EXCEPT ![th] = IF new # err THEN @ + 1 ELSE @]
             /\ loc' = [loc EXCEPT ![th].pan =
                          IF Recovers(err) THEN NoPanic ELSE @]
    /\ pc' = [pc EXCEPT ![th] = NextDeferred("finalize")]
    /\ UNCHANGED << cli, prog, mutex, tasks, nextTask, ctxDone, hist, runs,
                    closes, got, logged, crashed, exited >>

\* defer close(self.done), then the goroutine ends: closing a closed channel
\* panics, and a panic that was not recovered kills the process
closeDone(th) ==
    /\ pc[th] = "closeDone"
    /\ tk' = [tk EXCEPT ![th].done = TRUE]
    /\ closes' = [closes EXCEPT ![th] = @ + 1]
    /\ crashed' = (crashed \/ tk[th].done \/ loc[th].pan # NoPanic)
    /\ pc' = [pc EXCEPT ![th] = NextDeferred("closeDone")]
    /\ UNCHANGED << cli, prog, mutex, tasks, nextTask, ctxDone, loc, hist, runs,
                    writes, got, logged, exited >>

(***************************************************************************)
(* Run, and the outside callers.                                           *)
(***************************************************************************)
\* ctx, cancel := context.WithCancel(ctx); Start(ctx, fun)
Run ==
    /\ pc[MainThread] = "Run"
    /\ loc' = [loc EXCEPT ![MainThread] =
                 [@ EXCEPT !.callee = prog.root, !.wait = TRUE]]
    /\ pc' = [pc EXCEPT ![MainThread] = "TaskLock"]
    /\ UNCHANGED << cli, prog, mutex, tasks, tk, nextTask, ctxDone, hist, runs,
                    writes, closes, got, logged, crashed, exited >>

\* defer cancel(); return waitFor(...)
RunCancel ==
    /\ pc[MainThread] = "RunCancel"
    /\ ctxDone' = TRUE
    /\ exited' = prog.exits
    /\ pc' = [pc EXCEPT ![MainThread] = "returned"]
    /\ UNCHANGED << cli, prog, mutex, tasks, tk, nextTask, loc, hist, runs,
                    writes, closes, got, logged, crashed >>

\* cancel(), called by the owner of the context that was handed to Run:
\* the child context of the group is cancelled with it
Cancel ==
    /\ prog.cancel
    /\ ~ctxDone
    /\ ctxDone' = TRUE
    /\ UNCHANGED << cli, prog, mutex, tasks, tk, nextTask, pc, loc, hist, runs,
                    writes, closes, got, logged, crashed, exited >>

\* the task of fun exists and is done
Finished(fun) ==
    /\ Existing(tasks, fun) # NoTask
    /\ IsDone(Existing(tasks, fun))

\* an outside caller with a reference to the group: group.Task(fun) or
\* Wait(group, fun)
CallerCall(c) ==
    /\ pc[c] = "idle"
    /\ pc[MainThread] # "Run"
    /\ Len(hist[c]) < MaxCalls
    /\ \E op \in prog.ops[c - MaxTasks] :
         loc' = [loc EXCEPT ![c] =
                   [EmptyLoc EXCEPT !.callee = op.fun,
                                    !.wait = (op.op = "Wait"),
                                    !.late = Finished(op.fun)]]
    /\ pc' = [pc EXCEPT ![c] = "TaskLock"]
    /\ UNCHANGED << cli, prog, mutex, tasks, tk, nextTask, ctxDone, hist, runs,
                    writes, closes, got, logged, crashed, exited >>

Step(th) ==
    \/ TaskLock(th)
    \/ TaskCreate(th)
    \/ TaskGo(th)
    \/ TaskUnlock(th)
    \/ waitDone(th)
    \/ waitErr(th)

TaskStep(t) ==
    \/ run(t)
    \/ leaf(t)
    \/ ctxWait(t)
    \/ wgSelect(t)
    \/ wgErr(t)
    \/ RunStore(t)
    \/ RunUnlock(t)
    \/ finalize(t)
    \/ closeDone(t)

Running == ~exited /\ ~crashed

Next ==
    /\ Running
    /\ \/ \E th \in Threads : Step(th)
       \/ \E t \in TaskIds : TaskStep(t)
       \/ \E c \in Callers : CallerCall(c)
       \/ Run
       \/ RunCancel
       \/ Cancel

Spec == Init /\ [][Next]_vars

\* The Go scheduler runs every goroutine that can run: as long as some
\* goroutine can take a step, a step is taken.
LiveSpec == Spec /\ WF_vars(Next)

\* The programs whose root is a Par of two or more functions, without
\* outside callers.
ParRoots == {"ParFWV", "ParXYW", "ParXYX", "ParSerPar"}
ParInit == Init /\ prog.root \in ParRoots
ParNext ==
    /\ Running
    /\ \/ \E th \in Threads : Step(th)
       \/ \E t \in TaskIds : TaskStep(t)
       \/ Run
       \/ RunCancel
ParSpec == ParInit /\ [][ParNext]_vars /\ WF_vars(ParNext)

\* Programs run by Run alone, under the same scheduling: with Ser, Par, Wait
\* and the waitGroup over functions that return; with a function that waits
\* for the context; with functions that wait for each other.
ProgressRoots == {"SerXYZ", "ParXYX", "ParSerPar", "Par00", "ParXYW", "CycA"}
ProgressInit == Init /\ prog.root \in ProgressRoots
ProgressSpec == ProgressInit /\ [][ParNext]_vars /\ WF_vars(ParNext)

(***************************************************************************)
(* Choose: the selection of one task function by the names given on the    *)
(* command line.  A name is the sequence of its characters; the static     *)
(* functions in use have names of one letter.                              *)
(***************************************************************************)
\* the longest list of functions and of names handed to Choose
MaxFuns == 3
MaxNames == 2

\* unicode.SimpleFold on the letters in use: the lower case of a letter
Lower == [ c \in {"A", "B"} |-> IF c = "A" THEN "a" ELSE "b" ]
Fold(c) == IF c \in DOMAIN Lower THEN Lower[c] ELSE c
\* strings.EqualFold
EqualFold(s, t) ==
    /\ Len(s) = Len(t)
    /\ \A i \in 1..Len(s) : Fold(s[i]) = Fold(t[i])

\* TaskFunc.equal
equal(f, g) == id(f) = id(g)
\* (mutant) the name is compared with the short name as it is
equalTaskNameExact(f, name) == name = ShortName(f)
\* TaskFunc.equalTaskName
equalTaskName(f, name) == EqualFold(name, ShortName(f))
\* TaskFunc.equalTask
equalTask(f, g) == equal(f, g) \/ equalTaskName(f, ShortName(g))

\* taskFuncs.byTaskName: the first function of that name, or nil
byTaskName(self, name) ==
    IF \E i \in 1..Len(self) : equalTaskName(self[i], name)
    THEN self[CHOOSE i \in 1..Len(self) :
                /\ equalTaskName(self[i], name)
                /\ \A j \in 1..(i - 1) : ~equalTaskName(self[j], name)]
    ELSE NoFun
hasTaskName(self, name) == byTaskName(self, name) # NoFun
hasTask(self, val) == \E i \in 1..Len(self) : equalTask(self[i], val)

\* fmt.Errorf of the command line helpers
CliErr(msg) == << Layer("base", NoName, msg) >>
\* taskFuncs.add: the list afterwards, and the error
Added(list, err) == [list |-> list, err |-> err]
addFunc(self, val) ==
    IF val = NoFun
    THEN Added(self, CliErr("unexpected nil task function"))
    ELSE IF ShortName(val) = << >>
    THEN Added(self, CliErr("unexpected unnamed task function"))
    ELSE IF hasTaskName(self, ShortName(val))
    THEN Added(self, CliErr("unexpected task function with duplicate name"))
    ELSE IF hasTask(self, val)
    THEN Added(self, CliErr("unexpected duplicate task function"))
    ELSE Added(Append(self, val), NoErr)

\* dedup: for _, fun := range funs { err := out.add(fun); ... }
RECURSIVE dedupFrom(_, _, _)
dedupFrom(out, funs, i) ==
    IF i > Len(funs) THEN Added(out, NoErr)
    ELSE LET r == addFunc(out, funs[i])
         IN  IF r.err # NoErr THEN Added(<< >>, r.err)
             ELSE dedupFrom(r.list, funs, i + 1)
dedup(funs) == dedupFrom(<< >>, funs, 1)

\* what Choose returns: (TaskFunc, error)
Chosen(fun, err) == [fun |-> fun, err |-> err]
\* the loop of Choose over names, and what follows it
RECURSIVE chooseFrom(_, _, _, _)
chooseFrom(known, chosen, names, i) ==
    IF i > Len(names)
    THEN IF Len(chosen) = 0 THEN Chosen(NoFun, CliErr("no task specified"))
         ELSE IF Len(chosen) > 1
         THEN Chosen(NoFun, CliErr("too many tasks specified"))
         ELSE Chosen(chosen[1], NoErr)
    ELSE LET fun == byTaskName(known, names[i])
         IN  IF fun = NoFun THEN Chosen(NoFun, CliErr("unknown task"))
             ELSE LET r == addFunc(chosen, fun)
                  IN  IF r.err # NoErr THEN Chosen(NoFun, r.err)
                      ELSE chooseFrom(known, r.list, names, i + 1)
Choose(names, funs) ==
    LET known == dedup(funs)
    IN  IF known.err # NoErr THEN Chosen(NoFun, known.err)
        ELSE chooseFrom(known.list, << >>, names, 1)

\* the lists of at most n elements of S
ListsOf(S, n) == UNION { [1..k -> S] : k \in 0..n }
\* the functions handed to Choose: nil, static functions, two of them with
\* names that differ by case only, and two closures
CliFuns == {NoFun, "A", "a", "B", "OptD", "ParBC"}
\* the names given on the command line
CliNames == { << "A" >>, << "b" >>, << "func1" >>, << "c" >> }

ChooseInit ==
    /\ InitGroup
    /\ prog.root = "A"
    /\ \E names \in ListsOf(CliNames, MaxNames), funs \in ListsOf(CliFuns, MaxFuns) :
         cli = [NoCli EXCEPT !.names = names, !.funs = funs]

\* fun, err := Choose(os.Args[1:], funs)
ChooseCall ==
    /\ ~cli.called
    /\ cli' = [cli EXCEPT !.called = TRUE,
                          !.fun = Choose(cli.names, cli.funs).fun,
                          !.err = Choose(cli.names, cli.funs).err]
    /\ UNCHANGED << prog, mutex, tasks, tk, nextTask, ctxDone, pc, loc, hist,
                    runs, writes, closes, got, logged, crashed, exited >>

ChooseNext == ChooseCall
ChooseSpec == ChooseInit /\ [][ChooseNext]_vars

(***************************************************************************)
(* Properties.                                                             *)
(***************************************************************************)
\* the registry entry of a function
TaskOf(f) == tasks[id(f)]
\* the task objects made for a function
TasksFor(f) == { t \in TaskIds : tk[t].fun = f }
\* the function of task t has returned or panicked
Exited(t) == loc[t].exit.act # "none"
Caller1 == MaxTasks + 1
Caller2 == MaxTasks + 2
InTask(th) == pc[th] \in {"TaskLock", "TaskCreate", "TaskGo", "TaskUnlock"}

\* the task objects allocated so far
Allocated == 1..(nextTask - 1)

\* C1: whatever the interleaving of the calls g.Task(f) made by outside
\* callers and by running task functions, all of them return one and the same
\* task, one task object is made for f, and the body of f is entered at most
\* once, exactly once by the time it has started.
C1_Dedup ==
    /\ \A p, q \in got : p[1] = q[1] => p[2] = q[2]
    /\ \A t, u \in Allocated : tk[t].fun = tk[u].fun => t = u
    /\ \A f \in Funs : runs[f] <= 1
    /\ \A t \in Allocated : pc[t] \notin {"none", "run"} => runs[tk[t].fun] = 1

\* one outside call of Task(X) has returned and X is running, a second
\* outside call has found the task and still holds the mutex, and the call
\* made by the running root function waits for the mutex
C1_Witness ==
    /\ Len(hist[Caller1]) >= 1
    /\ pc[Caller2] = "TaskUnlock"
    /\ \E t \in TasksFor("OptX") : pc[t] = "TaskLock" /\ loc[t].callee = "X"
    /\ hist[Caller1][1].task = loc[Caller2].ret
    /\ runs["X"] = 1

\* every task object ever made is the registry entry of its function
EntryKept == \A t \in Allocated : TaskOf(tk[t].fun) = t
\* what every outside call of Task(f) or Wait(group, f) has returned is the
\* registry entry of f, a call issued after the task finished has returned
\* the finished task, a Wait has returned its stored result, and f was not
\* run again
CallsAgree ==
    \A c \in Callers : \A n \in 1..Len(hist[c]) :
        LET r == hist[c][n]
        IN  /\ r.task = TaskOf(r.fun)
            /\ r.late => IsDone(r.task)
            /\ r.waited => IsDone(r.task) /\ r.err = Err(r.task)
            /\ runs[r.fun] <= 1

\* C2: a registry entry is never removed or replaced, and a Task(f) or
\* Wait(group, f) issued after the task of f finished returns that finished
\* task and its stored result without running f again.
C2_Permanent == EntryKept /\ CallsAgree

\* both outside callers were answered by calls issued after X had finished,
\* one of them after X failed
C2_Witness ==
    /\ \E n \in 1..Len(hist[Caller1]) : hist[Caller1][n].late
    /\ \E n \in 1..Len(hist[Caller2]) :
           /\ hist[Caller2][n].late
           /\ hist[Caller2][n].err # NoErr

\* task t runs the general path of Par: a waitGroup over two or more tasks
ParWaiter(t) == t \in Allocated /\ Kind(t) = "Par" /\ Len(Args(t)) >= 2
\* the listed functions of t whose task is done with a non-nil error
FailedListed(t) ==
    { i \in 1..Len(Args(t)) :
        /\ TaskOf(Args(t)[i]) # NoTask
        /\ IsDone(TaskOf(Args(t)[i]))
        /\ Err(TaskOf(Args(t)[i])) # NoErr }
\* a Par that has returned while a listed task had failed has returned the
\* error of a listed task that failed
ReturnsFailure ==
    \A t \in TaskIds :
        ParWaiter(t) /\ Exited(t) /\ FailedListed(t) # {} =>
            /\ loc[t].exit.act = "ret"
            /\ \E i \in FailedListed(t) : loc[t].exit.ret = Err(TaskOf(Args(t)[i]))

\* C3: once a task listed by Par(f1..fn), n >= 2, is done with a non-nil
\* error, the Par function returns, whether or not the other listed tasks
\* ever finish, and what it returns is the Err() of a listed task that failed.
C3_FailFast ==
    /\ \A t \in TaskIds :
         (ParWaiter(t) /\ FailedListed(t) # {}) ~> (ParWaiter(t) /\ Exited(t))
    /\ []ReturnsFailure

\* Par(F, W, V) has returned the error of F while W and V are still blocked
\* on the context, which is not cancelled
C3_Witness ==
    \E t \in TasksFor("ParFWV") :
        /\ Exited(t)
        /\ loc[t].exit.ret = Err(TaskOf("F"))
        /\ loc[t].exit.ret # NoErr
        /\ pc[TaskOf("W")] = "ctxWait"
        /\ pc[TaskOf("V")] = "ctxWait"
        /\ ~ctxDone

\* every function listed by task t has a task that is done with a nil error
AllNil(t) ==
    \A i \in 1..Len(Args(t)) :
        /\ TaskOf(Args(t)[i]) # NoTask
        /\ IsDone(TaskOf(Args(t)[i]))
        /\ Err(TaskOf(Args(t)[i])) = NoErr

\* C4: a Par function that has returned has returned nil if and only if
\* every listed function has a task that is done with a nil error (so when
\* it returns nil, the Done of every listed task is closed), also when a
\* function is listed more than once.
C4_ParNil ==
    \A t \in Allocated :
        Kind(t) = "Par" /\ Exited(t) =>
            /\ loc[t].exit.act = "ret"
            /\ loc[t].exit.ret = NoErr <=> AllNil(t)

\* Par(X, Y, X) has returned nil, X and Y having finished with nil
C4_Witness ==
    \E t \in TasksFor("ParXYX") :
        /\ Exited(t)
        /\ loc[t].exit.ret = NoErr
        /\ AllNil(t)
        /\ loc[TaskOf("X")].exit = Ret(NoErr)

\* task t never asks the group for a task and never waits
NoRequest(t) ==
    /\ pc[t] \in {"none", "run", "RunStore", "RunUnlock", "finalize",
                  "closeDone", "end"}
    /\ loc[t].callee = NoFun
    /\ loc[t].ret = NoTask
\* task t has asked for the task of f alone, and has returned that task's
\* Err(), read after its Done was closed
WaitedOn(t, f) ==
    /\ loc[t].callee \in {NoFun, f}
    /\ loc[t].i <= 1
    /\ Exited(t) =>
         /\ loc[t].ret = TaskOf(f)
         /\ IsDone(TaskOf(f))
         /\ loc[t].exit = Ret(Err(TaskOf(f)))

\* C5: Par() returns nil without asking for any task and without waiting, as
\* does the multi-wait path over no task; Par(X) asks for the task of X alone
\* and returns what Wait(group, X) returns, as does the multi-wait path over
\* the one task; no other task comes to exist.
C5_ParZeroOne ==
    /\ \A t \in Allocated :
         /\ tk[t].fun \in {"Par0", "MultiWait0"} =>
              /\ NoRequest(t)
              /\ Exited(t) => loc[t].exit = Ret(NoErr)
         /\ tk[t].fun \in {"Par1", "MultiWait1", "WaitX"} => WaitedOn(t, "X")
    /\ prog.root = "Par00" =>
         \A t \in Allocated : tk[t].fun \in {"Par00", "Par0", "MultiWait0"}
    /\ prog.root = "Par3" =>
         \A t \in Allocated :
             tk[t].fun \in {"Par3", "Par1", "MultiWait1", "WaitX", "X"}

\* X has failed and Par(X), the multi-wait over X and Wait(group, X) have all
\* three returned
C5_Witness ==
    /\ TaskOf("X") # NoTask
    /\ Err(TaskOf("X")) # NoErr
    /\ \A f \in {"Par1", "MultiWait1", "WaitX"} :
         \E t \in TasksFor(f) : Exited(t) /\ loc[t].exit.ret # NoErr

\* the step in which the multi-wait of task t gives up: it returns the error
\* of the task it has just taken off its list
GivesUp(t) ==
    /\ pc[t] = "wgErr"
    /\ loc'[t].exit.act = "ret"
    /\ loc'[t].exit.ret # NoErr
\* such a step changes no task object, no other thread, and neither the
\* registry nor the group's context
GiveUpFrame ==
    \A t \in TaskIds :
        GivesUp(t) =>
            /\ tk' = tk
            /\ tasks' = tasks
            /\ ctxDone' = ctxDone
            /\ \A u \in Threads \ {t} : pc'[u] = pc[u] /\ loc'[u] = loc[u]
\* D2 is Par(Opt(B2), C2): once it has returned, C2 is done and what D2 has
\* returned is C2's own result
D2Real ==
    \A t \in TasksFor("D2") :
        Exited(t) =>
            /\ IsDone(TaskOf("C2"))
            /\ loc[t].exit = Ret(Err(TaskOf("C2")))
            /\ Err(TaskOf("C2")) = NoErr => IsDone(TaskOf("OptB2"))
            /\ loc[TaskOf("C2")].exit.ret = NoErr <=> Err(TaskOf("C2")) = NoErr

\* C6: when a multi-wait returns early on an error, the step changes nothing
\* of the tasks it watched (their Done and Err, their threads), and in
\* A2 = Par(B2, C2), D2 = Par(Opt(B2), C2) with B2 failing, D2 still gets the
\* real result of C2.
C6_GiveUp == [][GiveUpFrame /\ D2Real']_vars

\* A2 has given up on the error of B2 while C2 is still running and D2 is
\* still waiting on C2
C6_Witness ==
    /\ \E t \in TasksFor("A2") :
         /\ Exited(t)
         /\ loc[t].exit.ret = Err(TaskOf("B2"))
         /\ loc[t].wgTasks = << TaskOf("C2") >>
    /\ TaskOf("C2") # NoTask
    /\ pc[TaskOf("C2")] = "leaf"
    /\ \E t \in TasksFor("D2") :
         /\ pc[t] = "wgSelect"
         /\ \E i \in 1..Len(loc[t].wgTasks) : loc[t].wgTasks[i] = TaskOf("C2")

\* the function of task u failed: it returned an error or panicked with a
\* value
Failed(u) ==
    \/ loc[u].exit.act = "ret" /\ loc[u].exit.ret # NoErr
    \/ loc[u].exit.act = "pan" /\ loc[u].exit.pan.kind \in {"error", "value"}
\* the Opt tasks that have returned
OptExited == { t \in Allocated : Kind(t) = "Opt" /\ Exited(t) }

\* C7: an Opt(F) that has returned has returned nil, F's task being done; F
\* was started through the group and run once; F's Err() is F's own outcome
\* (non-nil when F returned an error or panicked, and then with F's error as
\* cause), it is what a direct Wait on F returns, and it was logged exactly
\* when it is non-nil.
C7_Opt ==
    /\ \A t \in OptExited :
         LET f == Args(t)[1]
             u == TaskOf(f)
         IN  /\ loc[t].exit = Ret(NoErr)
             /\ u # NoTask /\ IsDone(u) /\ loc[t].ret = u
             /\ runs[f] = 1
             /\ Failed(u) => Err(u) # NoErr
             /\ loc[u].exit.act = "ret" => Unwrap(Err(u)) = loc[u].exit.ret
             /\ logged = Log(Err(u))
    /\ OptExited = {} => logged = << >>
    /\ \A c \in Callers : \A n \in 1..Len(hist[c]) :
         hist[c][n].waited => hist[c][n].err = Err(hist[c][n].task)

\* X has failed, Opt(X) has returned nil and logged the error, and a direct
\* Wait(group, X) has returned the error
C7_Witness ==
    /\ \E t \in TasksFor("OptX") : Exited(t) /\ loc[t].exit = Ret(NoErr)
    /\ Err(TaskOf("X")) # NoErr
    /\ logged = << Err(TaskOf("X")) >>
    /\ \E n \in 1..Len(hist[Caller2]) : hist[Caller2][n].err = Err(TaskOf("X"))

\* Run has returned
RunReturned == pc[MainThread] = "returned"
\* the function f has a task that is done, with a non-nil error
DoneFailed(f) == TaskOf(f) # NoTask /\ IsDone(TaskOf(f)) /\ Err(TaskOf(f)) # NoErr
\* the function f has a task that is done, with a nil error
DoneNil(f) == TaskOf(f) # NoTask /\ IsDone(TaskOf(f)) /\ Err(TaskOf(f)) = NoErr

\* C8 as stated: when Run(A) of the diamond has returned, D was run once, B
\* has failed, C has succeeded, A has failed, and the error returned has D's
\* error as its cause.
C8_Diamond ==
    prog.root = "A" /\ RunReturned =>
        /\ runs["D"] = 1
        /\ DoneFailed("B")
        /\ DoneNil("C")
        /\ DoneFailed("A")
        /\ loc[MainThread].val = Err(TaskOf("A"))
        /\ ErrorsIs(loc[MainThread].val, NewErr("D"))


\* C8 as amended: when Run(A) of the diamond has returned, D was run once, B
\* and A have failed, and the error returned is A's, with D's error as its
\* cause; C never fails: it may still be running when Run returns, and
\* whenever its task is done, its error is nil.
C8_DiamondAmended ==
    prog.root = "A" =>
        /\ runs["D"] <= 1
        /\ RunReturned =>
             /\ runs["D"] = 1
             /\ DoneFailed("B")
             /\ DoneFailed("A")
             /\ loc[MainThread].val = Err(TaskOf("A"))
             /\ ErrorsIs(loc[MainThread].val, NewErr("D"))
             /\ ErrorsIs(loc[MainThread].val, Err(TaskOf("D")))
        /\ \A t \in TasksFor("C") :
             /\ Exited(t) => loc[t].exit = Ret(NoErr)
             /\ IsDone(t) => Err(t) = NoErr

\* Run(A) has returned A's error while C, which succeeds, has not started
C8_Witness ==
    /\ prog.root = "A"
    /\ RunReturned
    /\ DoneFailed("A")
    /\ TaskOf("C") # NoTask
    /\ runs["C"] = 0

\* the listed functions of t whose task is done with a non-nil error
\* (FailedListed), the first of them
FirstFailed(t) ==
    CHOOSE i \in FailedListed(t) : \A j \in FailedListed(t) : i <= j

\* C9: Ser(f1..fn), when nothing else asks for its functions, asks for the
\* task of f(i+1) only after the task of f(i) is done with a nil error; once
\* returned, it has returned the error of the first listed function that
\* failed, the functions after that one have no task and were never run, and
\* it has returned nil only with all n tasks done with nil.
C9_Ser ==
    prog.root = "SerXYZ" =>
        \A t \in Allocated :
            Kind(t) = "Ser" =>
                /\ \A i \in 2..Len(Args(t)) :
                     TaskOf(Args(t)[i]) # NoTask => DoneNil(Args(t)[i - 1])
                /\ Exited(t) =>
                     /\ loc[t].exit.act = "ret"
                     /\ IF FailedListed(t) # {}
                        THEN /\ loc[t].exit.ret =
                                  Err(TaskOf(Args(t)[FirstFailed(t)]))
                             /\ \A j \in (FirstFailed(t) + 1)..Len(Args(t)) :
                                  /\ TaskOf(Args(t)[j]) = NoTask
                                  /\ runs[Args(t)[j]] = 0
                        ELSE /\ loc[t].exit.ret = NoErr
                             /\ AllNil(t)

\* Ser(X, Y, Z) has returned the error of Y, X being done with nil and Z
\* never asked for
C9_Witness ==
    \E t \in TasksFor("SerXYZ") :
        /\ Exited(t)
        /\ DoneNil("X")
        /\ DoneFailed("Y")
        /\ loc[t].exit.ret = Err(TaskOf("Y"))
        /\ TaskOf("Z") = NoTask

\* the task of a function that panicked is done with an error that names the
\* task and carries the payload
PanicRecorded(t) ==
    LET p == loc[t].exit.pan
    IN  /\ Err(t) # NoErr
        /\ Err(t)[1].name = << tk[t].fun >>
        /\ p.kind = "error" => Err(t)[1].tag = "panicked" /\ Unwrap(Err(t)) = p.e
        /\ p.kind = "value" => Err(t)[1].tag = "panicval" /\ Err(t)[1].val = p.v

\* C10: a panic of a task function never leaves run(): no goroutine dies of
\* it, the task's Done is closed, once, and its Err() is then a non-nil error
\* that names the task, with the payload as cause when it is an error and
\* carrying the payload otherwise; the mutex of the group is never left
\* locked by a task that is over.
C10_PanicContained ==
    /\ ~crashed
    /\ \A t \in Allocated :
         /\ closes[t] = (IF IsDone(t) THEN 1 ELSE 0)
         /\ pc[t] = "end" => IsDone(t) /\ mutex # t
         /\ IsDone(t) /\ loc[t].exit.act = "pan" => PanicRecorded(t)


\* the function of task t has returned a non-nil error
ReturnedErr(t) == loc[t].exit.act = "ret" /\ loc[t].exit.ret # NoErr
\* that error, wrapped once with the short name of the task
WrappedOnce(t) == Wrap("finished", ShortName(tk[t].fun), loc[t].exit.ret)
\* what a waiter that has seen Done closed is given by Err(): for a function
\* that returned e, e wrapped once, e being its cause
FinalErr(t) ==
    /\ IsDone(t)
    /\ CanErr(t)
    /\ ReturnedErr(t) =>
         /\ Err(t) = WrappedOnce(t)
         /\ Err(t) # loc[t].exit.ret
         /\ Unwrap(Err(t)) = loc[t].exit.ret
         /\ Len(Err(t)) = Len(loc[t].exit.ret) + 1
\* the records of the waits an outside caller has finished
Waited(c) == { i \in 1..Len(hist[c]) : hist[c][i].waited }

\* C11: every waiter that reads the result of a task after its Done is
\* closed (waitFor in Wait and Run, waitGroup.wait in Par), early or late,
\* reads one value, the final Err() of the task: for a function that returned
\* a non-nil e, e wrapped exactly once with the short name of the task, e
\* being its cause, and never e itself.
C11_OneWrappedError ==
    /\ \A th \in Threads :
         /\ pc[th] = "waitErr" => FinalErr(loc[th].ret)
         /\ pc[th] = "wgErr" => FinalErr(loc[th].cur)
    /\ \A c \in Callers : \A i \in Waited(c) :
         /\ FinalErr(hist[c][i].task)
         /\ hist[c][i].err = Err(hist[c][i].task)
    /\ RunReturned =>
         /\ FinalErr(TaskOf(prog.root))
         /\ loc[MainThread].val = Err(TaskOf(prog.root))
    /\ \A t \in Allocated :
         Exited(t) /\ Kind(t) \in {"Wait", "Ser"} /\ loc[t].exit.ret # NoErr =>
             \E u \in Allocated :
                 /\ tk[u].fun \in { Args(t)[i] : i \in 1..Len(Args(t)) }
                 /\ FinalErr(u)
                 /\ loc[t].exit.ret = Err(u)

\* X returned an error; Opt(X), waiting from the start, has logged it
\* wrapped, and an outside caller that asked after X was done was given the
\* same value
C11_Witness ==
    /\ prog.root = "OptX"
    /\ \E i \in Waited(Caller2) :
         /\ hist[Caller2][i].late
         /\ hist[Caller2][i].err = Wrap("finished", << "X" >>, NewErr("X"))
         /\ logged = << hist[Caller2][i].err >>


\* run() of task t is over
RunOver(t) == pc[t] = "end"
\* Err() of a task that is done is the outcome of its function: nil for a
\* nil result, the returned error as cause otherwise
OwnResult(t) ==
    loc[t].exit.act = "ret" =>
        IF loc[t].exit.ret = NoErr THEN Err(t) = NoErr
        ELSE /\ Unwrap(Err(t)) = loc[t].exit.ret
             /\ ErrorsIs(Err(t), loc[t].exit.ret)

\* C12: seen from outside, Done of a task is closed only when its function
\* has returned or panicked, and is closed when run() is over; a cancelled
\* group context alone closes nothing; Err() of a done task is the result of
\* the function: the function that waits for the cancellation and returns
\* its sentinel gives the sentinel, not context.Canceled.
C12_OutsideView ==
    \A t \in Allocated :
        /\ IsDone(t) => Exited(t)
        /\ Exited(t) /\ RunOver(t) => IsDone(t)
        /\ ctxDone /\ ~Exited(t) => ~IsDone(t)
        /\ IsDone(t) => OwnResult(t)
        /\ IsDone(t) /\ tk[t].fun = "S" =>
             /\ ErrorsIs(Err(t), NewErr("S"))
             /\ ~ErrorsIs(Err(t), Canceled)
        /\ IsDone(t) /\ tk[t].fun \in {"W", "V"} => ErrorsIs(Err(t), Canceled)

\* the context was cancelled, the function S then returned its sentinel: the
\* task an outside caller got from Task(S) is done with the sentinel
C12_Witness ==
    /\ prog.root = "S"
    /\ ctxDone
    /\ \E i \in 1..Len(hist[Caller1]) :
         /\ hist[Caller1][i].fun = "S"
         /\ IsDone(hist[Caller1][i].task)
         /\ Err(hist[Caller1][i].task) = Wrap("finished", << "S" >>, NewErr("S"))


\* C13: while Done of a task is not closed, a call of Err() from outside
\* (which takes errLock and reads err) returns nil.
C13_NilBeforeDone ==
    \A t \in Allocated :
        ~IsDone(t) /\ CanErr(t) => Err(t) = NoErr


\* a step leaves the outside view of a task that is done as it is
StaysDone(t) ==
    IsDone(t) =>
        /\ tk'[t].done
        /\ tk'[t].err = tk[t].err
        /\ writes'[t] = writes[t]
        /\ closes'[t] = closes[t]
        /\ tk'[t].fun = tk[t].fun

\* C14: once Done of a task is closed, no step of any thread writes its err
\* or its done: every later Err() returns the same value and Done stays
\* closed.
C14_Immutable == [][\A t \in TaskIds : StaysDone(t)]_vars

\* a task is done with an error, and a thread that asked for it later is
\* about to read that error
C14_Witness ==
    \E th \in Threads :
        /\ pc[th] = "waitErr"
        /\ loc[th].late
        /\ IsDone(loc[th].ret)
        /\ Err(loc[th].ret) # NoErr


\* C15: in every execution of run(), whether the function returns nil,
\* returns an error or panics, err is assigned exactly once and done is
\* closed exactly once.
C15_WriteOnce ==
    \A t \in Allocated :
        /\ writes[t] <= 1
        /\ closes[t] <= 1
        /\ RunOver(t) => writes[t] = 1 /\ closes[t] = 1


\* C16: Run starts from an empty group; it has returned only when Done of
\* the root task is closed, and what it returns is the Err() of the root
\* task; a cancelled context does not make it return: with the root
\* TaskFuncDoneErr it returns context.Canceled wrapped with the name of the
\* root, with a root that ignores the context it is still waiting as long as
\* the root function has not finished.
C16_Run ==
    /\ pc[MainThread] = "Run" =>
         /\ nextTask = 1
         /\ \A f \in Funs : TaskOf(f) = NoTask
    /\ RunReturned =>
         /\ TaskOf(prog.root) # NoTask
         /\ IsDone(TaskOf(prog.root))
         /\ RunOver(TaskOf(prog.root))
         /\ loc[MainThread].val = Err(TaskOf(prog.root))
         /\ prog.root = "W" =>
              loc[MainThread].val = Wrap("finished", << "W" >>, Canceled)
    /\ ctxDone /\ (\E t \in TasksFor(prog.root) : ~RunOver(t)) => ~RunReturned

\* the context handed to Run was cancelled and Run(W) has returned the
\* wrapped cancellation error
C16_Witness ==
    /\ prog.root = "W"
    /\ prog.cancel
    /\ RunReturned
    /\ ErrorsIs(loc[MainThread].val, Canceled)
    /\ loc[MainThread].val # Canceled


\* C17: every task of the group, root or not, holds the context of the
\* group as the context its function is handed; that context is cancelled
\* once Run has returned and, unless its owner cancelled it from outside, not
\* before the root task is done; a function still running after Run returned
\* finds its context cancelled, and a function that waited for it returns
\* context.Canceled.
C17_GroupContext ==
    /\ \A t \in Allocated : tk[t].ctx = GroupCtx
    /\ RunReturned => ctxDone
    /\ ctxDone /\ ~prog.cancel =>
         /\ RunReturned
         /\ IsDone(TaskOf(prog.root))
    /\ \A t \in Allocated :
         /\ RunReturned /\ ~Exited(t) => CtxIsDone(tk[t].ctx)
         /\ Exited(t) /\ tk[t].fun \in {"W", "V"} =>
              /\ ctxDone
              /\ loc[t].exit = Ret(Canceled)

\* Run(Par(F, W, V)) has returned at the failure of F; W, not the root, has
\* since seen the cancellation and returned, V is still waiting and can go on
C17_Witness ==
    /\ prog.root = "ParFWV"
    /\ RunReturned
    /\ \E t \in TasksFor("W") : loc[t].exit = Ret(Canceled)
    /\ \E t \in TasksFor("V") : pc[t] = "ctxWait" /\ CtxIsDone(tk[t].ctx)


\* the tasks of the functions other than the root
NonRoot == { t \in Allocated : tk[t].fun # prog.root }

\* C18: the context of the group goes to the root task only: a task started
\* through Task() for another function is not given it.
C18_RootOnly ==
    \A t \in NonRoot : tk[t].ctx # GroupCtx

\* C18 as amended: the core gives the context of the group to the task of
\* every function, the root's or not; what it leaves to the functions is to
\* honour it: a cancelled context closes no Done and sets no error, and only
\* a function that waits on the context returns because of it.
C18_EveryTask ==
    /\ \A t \in NonRoot :
         /\ tk[t].ctx = GroupCtx
         /\ pc[t] = "ctxWait" /\ ctxDone => CtxIsDone(tk[t].ctx)
         /\ Exited(t) /\ Kind(t) = "CtxWait" => ctxDone
    /\ \A t \in Allocated :
         ctxDone /\ ~Exited(t) => ~IsDone(t) /\ Err(t) = NoErr

\* W, started by Par(X, Y, W) and not the root, holds the context of the
\* group and has returned its cancellation error
C18_Witness ==
    /\ prog.root = "ParXYW"
    /\ \E t \in TasksFor("W") :
         /\ t \in NonRoot
         /\ tk[t].ctx = GroupCtx
         /\ IsDone(t)
         /\ ErrorsIs(Err(t), Canceled)


\* thread t is waiting for Done of task u: in waitFor, or in waitGroup.wait
\* with u among the tasks it still watches
Waits(t, u) ==
    \/ pc[t] = "waitDone" /\ loc[t].ret = u
    \/ /\ pc[t] \in {"wgSelect", "wgErr"}
       /\ \E i \in 1..Len(loc[t].wgTasks) : loc[t].wgTasks[i] = u
\* every task of the set C waits for a task of C: the waits of C end in
\* cycles within C
Knot(C) == \A v \in C : \E u \in C : Waits(v, u)
\* task t is on a cycle of waits, or waits for a task that is
OnCycle(t) == \E C \in SUBSET Allocated : t \in C /\ Knot(C)
\* the step is the early return of the waitGroup of p, with the error of a
\* task it watched that is not on the cycle
FailsFast(p) ==
    /\ pc[p] = "wgErr"
    /\ ~Exited(p)
    /\ ~OnCycle(loc[p].cur)
    /\ Err(loc[p].cur) # NoErr
    /\ loc'[p].exit = Ret(Err(loc[p].cur))
\* the programs in which a function waits for itself: Self through Wait,
\* SerSelf through Ser, CycA through Wait and the Par of CycB
CycleRoots == {"Self", "SerSelf", "CycA"}
\* a task on a cycle of waits is not done, has not exited and has no error
Blocked(t) == ~IsDone(t) /\ ~Exited(t) /\ Err(t) = NoErr /\ writes[t] = 0

\* C19: a task whose function waits, through Wait, Ser or Par, directly or
\* through other tasks, for its own task never gets out of that wait: it
\* stays on the cycle in every later state, its Done open and its error nil.
C19_CycleForever ==
    [][prog.root \in CycleRoots =>
          \A t \in TaskIds :
              OnCycle(t) => Blocked(t) /\ (OnCycle(t) /\ Blocked(t))']_vars

\* C19 as amended: a task on a cycle of waits gets out of it only when the
\* waitGroup of a Par on the cycle returns early with the error of a task
\* outside the cycle; otherwise it stays on the cycle, its Done open and its
\* error nil, and Run, waiting for it, does not return.
C19_CycleUnlessFailFast ==
    [][prog.root \in CycleRoots =>
          \A t \in TaskIds :
              OnCycle(t) =>
                  /\ Blocked(t)
                  /\ \/ (OnCycle(t) /\ Blocked(t))'
                     \/ \E p \in TaskIds : OnCycle(p) /\ FailsFast(p)
                  /\ TaskOf(prog.root) = t => ~RunReturned']_vars

\* CycA waits for CycB, whose Par waits for CycA and for Y; Y is done with
\* nil: both are on the cycle, and Run waits for CycA
C19_Witness ==
    /\ prog.root = "CycA"
    /\ DoneNil("Y")
    /\ TaskOf("CycA") # NoTask
    /\ TaskOf("CycB") # NoTask
    /\ OnCycle(TaskOf("CycA"))
    /\ OnCycle(TaskOf("CycB"))
    /\ pc[TaskOf("CycB")] = "wgSelect"
    /\ Waits(MainThread, TaskOf("CycA"))


\* the steps of Task() that run with the mutex of the group held
Holding == {"TaskCreate", "TaskGo", "TaskUnlock"}
\* thread th, inside Task(), is not stuck: it can take its next step, or it
\* waits for the mutex and the thread holding the mutex can take its own
CanGoOn(th) ==
    \/ ENABLED Step(th)
    \/ /\ pc[th] = "TaskLock"
       /\ mutex \in Threads \ {th}
       /\ ENABLED Step(mutex)

\* C20: the mutex of the group is held only inside Task(), between Lock and
\* the return: never by a thread that runs a task function, waits for a Done
\* or for the context; so a thread inside Task(), an outside caller or a task
\* function, is never stuck, whatever the other tasks are doing.
C20_LockOnlyInTask ==
    /\ mutex # NoThread =>
         /\ mutex \in Threads
         /\ pc[mutex] \in Holding
    /\ \A th \in Threads :
         /\ pc[th] \in Holding => mutex = th
         /\ Running /\ InTask(th) => CanGoOn(th)

\* a task function is inside Task() with the mutex, another thread waits for
\* the mutex, and a third one is blocked waiting for a Done or the context
C20_Witness ==
    \E th \in TaskIds :
        /\ mutex = th
        /\ pc[th] = "TaskCreate"
        /\ \E w \in Threads \ {th} : pc[w] = "TaskLock"
        /\ \E b \in TaskIds \ {th} : pc[b] \in {"waitDone", "wgSelect", "ctxWait"}


\* the step assigns the err field of task t
WritesErr(t) == writes'[t] # writes[t]
\* the step reads the err field of task t outside Err(): finalize starts
\* with `if self.err != nil`
FinalizeReads(t) == pc[t] = "finalize" /\ pc'[t] # "finalize"

\* C21: every step that reads or writes the err field of a task is taken by
\* a thread that holds the errLock of that task, so that Err(), which takes
\* the lock, cannot read while err is written.
C21_ErrUnderLock ==
    [][\A t \in TaskIds :
          WritesErr(t) \/ FinalizeReads(t) =>
              /\ tk'[t].errLock = t \/ tk[t].errLock = t
              /\ ~CanErr(t) \/ ~CanErr(t)']_vars


\* the entries of the list funs
Entries(funs) == 1..Len(funs)
\* funs is a valid set of candidates: no nil, no function twice, no two
\* short names equal ignoring case
ValidFuns(funs) ==
    /\ \A i \in Entries(funs) : funs[i] # NoFun
    /\ \A i, j \in Entries(funs) :
         i # j =>
             /\ funs[i] # funs[j]
             /\ ~EqualFold(ShortName(funs[i]), ShortName(funs[j]))
\* the candidates whose short name is name, ignoring case
Named(funs, name) ==
    { funs[i] : i \in { k \in Entries(funs) : EqualFold(name, ShortName(funs[k])) } }

\* C22: Choose(names, funs) returns a function and a nil error exactly when
\* funs is a valid set of candidates and names is one name, which is the
\* short name of a candidate ignoring case; the function is then that one
\* candidate; in every other case it returns an error and a nil function.
C22_Choose ==
    cli.called =>
        /\ cli.err = NoErr <=>
             /\ ValidFuns(cli.funs)
             /\ Len(cli.names) = 1
             /\ Named(cli.funs, cli.names[1]) # {}
        /\ cli.err = NoErr => Named(cli.funs, cli.names[1]) = { cli.fun }
        /\ cli.err # NoErr => cli.fun = NoFun

\* the function a was chosen by the name A among a, B and a closure
C22_Witness ==
    /\ cli.called
    /\ cli.names = << << "A" >> >>
    /\ cli.funs = << "B", "a", "OptD" >>
    /\ cli.fun = "a"
    /\ cli.err = NoErr

\* task s runs Ser(Nop0, Nop1): it has not returned, the function of Nop1
\* has started (asked for by another task), the function of Nop0 has not
\* finished
Overtaken(s) ==
    /\ s \in Allocated
    /\ tk[s].fun = "SerNop"
    /\ pc[s] # "none"
    /\ ~Exited(s)
    /\ runs["Nop1"] >= 1
    /\ TaskOf("Nop0") = NoTask \/ ~Exited(TaskOf("Nop0"))
\* Ser(Nop0, Nop1) returns only nil, after both tasks are done with nil
SerReturnsNil ==
    \A s \in Allocated :
        tk[s].fun = "SerNop" /\ Exited(s) =>
            /\ loc[s].exit = Ret(NoErr)
            /\ DoneNil("Nop0")
            /\ DoneNil("Nop1")

\* C23: Ser does not check the order of execution: when the function of
\* Nop1, asked for by Par(Nop0, Nop1), has started before the function of
\* Nop0 has finished while a task runs Ser(Nop0, Nop1), Ser goes on to return
\* nil; and Ser(Nop0, Nop1) never returns anything but nil.
C23_SerUnchecked ==
    /\ \A s \in TaskIds :
         Overtaken(s) ~> (Exited(s) /\ loc[s].exit = Ret(NoErr))
    /\ []SerReturnsNil

\* Ser(Nop0, Nop1) is waiting for Nop0, whose function has not finished,
\* and Nop1 is already done
C23_Witness ==
    \E s \in TaskIds :
        /\ Overtaken(s)
        /\ pc[s] = "waitDone"
        /\ loc[s].ret = TaskOf("Nop0")
        /\ DoneNil("Nop1")

\* the function has a registry entry whose goroutine was started
Launched(f) == TaskOf(f) # NoTask /\ pc[TaskOf(f)] # "none"
\* task t is in wg.wait() of Par, or its function is over
ParWaitBegun(t) ==
    /\ ParWaiter(t)
    /\ pc[t] \in {"wgSelect", "wgErr"} \/ Exited(t)
AllLaunched(t) == \A i \in 1..Len(Args(t)) : Launched(Args(t)[i])
AllRun(t) == \A i \in 1..Len(Args(t)) : runs[Args(t)[i]] >= 1

\* C24: when the wait of Par(f1..fn), n >= 2, begins, and from then on, every
\* listed function has a registry entry whose goroutine was started; under
\* fair scheduling every listed function is then called, also when a listed
\* task has already failed.
C24_ParLaunchesAll ==
    /\ [](\A t \in TaskIds : ParWaitBegun(t) => AllLaunched(t))
    /\ \A t \in TaskIds : ParWaitBegun(t) ~> (ParWaiter(t) /\ AllRun(t))

\* Par(X, Y, W) starts to wait when X is done with an error; Y and W have
\* been launched and their functions have not been called yet
C24_Witness ==
    \E t \in TasksFor("ParXYW") :
        /\ pc[t] = "wgSelect"
        /\ Len(loc[t].wgCases) = 3
        /\ DoneFailed("X")
        /\ AllLaunched(t)
        /\ runs["Y"] = 0
        /\ runs["W"] = 0

\* a task whose goroutine was started is the registry entry of its function
LaunchedIsEntry ==
    \A t \in TaskIds : pc[t] # "none" => TaskOf(tk[t].fun) = t
\* between the lookup that found no entry and the store, the mutex is held
\* and the entry is still absent
AbsentUnderLock ==
    \A th \in Threads :
        pc[th] = "TaskCreate" =>
            /\ mutex = th
            /\ TaskOf(loc[th].callee) = NoTask
\* a lookup that found a task found the registry entry of the function
FindsEntry ==
    \A th \in Threads :
        pc[th] = "TaskUnlock" =>
            /\ loc[th].ret = TaskOf(loc[th].callee)
            /\ tk[loc[th].ret].fun = loc[th].callee
\* an entry is stored once, by the holder of the mutex, for a task that is
\* not launched yet
StoresUnderLock ==
    \A k \in DOMAIN tasks :
        tasks'[k] # tasks[k] =>
            /\ tasks[k] = NoTask
            /\ mutex # NoThread
            /\ mutex' = mutex
            /\ pc[mutex] = "TaskCreate"
            /\ pc'[tasks'[k]] = "none"
\* a task is launched by the holder of the mutex, after it was stored
LaunchesStored ==
    \A t \in TaskIds :
        pc[t] = "none" /\ pc'[t] # "none" =>
            /\ mutex # NoThread
            /\ pc[mutex] = "TaskGo"
            /\ loc[mutex].ret = t
            /\ TaskOf(tk[t].fun) = t

\* C25: a task whose function is executing or has finished is the registry
\* entry of its function; the entry is stored by the holder of the mutex that
\* found it absent, before the goroutine of the task is started, and every
\* request that finds a task finds that entry.
C25_StoreBeforeLaunch ==
    /\ [](LaunchedIsEntry /\ AbsentUnderLock /\ FindsEntry)
    /\ [][StoresUnderLock /\ LaunchesStored]_vars

\* the function Self, while it runs, has asked for its own task and found it
C25_Witness ==
    \E t \in TasksFor("Self") :
        /\ pc[t] = "TaskUnlock"
        /\ loc[t].callee = "Self"
        /\ loc[t].ret = t
        /\ ~Exited(t)

\* task t is in waitGroup.wait
InWait(t) == t \in Allocated /\ pc[t] \in {"wgSelect", "wgErr"}
\* case i of the waitGroup of t receives from the Done of task i
Paired(t) ==
    /\ Len(loc[t].wgTasks) = Len(loc[t].wgCases)
    /\ \A i \in 1..Len(loc[t].wgTasks) : loc[t].wgCases[i] = loc[t].wgTasks[i]
\* the entries added and not yet removed; the task of an iteration is done
WaitGroupInv ==
    \A t \in Allocated :
        /\ Paired(t)
        /\ InWait(t) =>
              /\ Len(loc[t].wgTasks) <= Len(Args(t))
              /\ pc[t] = "wgSelect" => Len(loc[t].wgTasks) > 0
              /\ pc[t] = "wgErr" =>
                    /\ Len(loc[t].wgTasks) < Len(Args(t))
                    /\ IsDone(loc[t].cur)
\* an iteration of wait() takes one entry out, whose task is done, and keeps
\* the others in order; nothing else changes the lists during wait()
OneRemoved(t) ==
    LET old == loc[t].wgTasks
        new == loc'[t].wgTasks
    IN  IF pc[t] = "wgSelect" /\ pc'[t] # "wgSelect"
        THEN \E index \in 1..Len(old) :
                 /\ IsDone(old[index])
                 /\ loc'[t].cur = old[index]
                 /\ Len(new) = Len(old) - 1
                 /\ \A j \in 1..Len(new) :
                      new[j] = IF j < index THEN old[j] ELSE old[j + 1]
        ELSE InWait(t) => new = old /\ loc'[t].wgCases = loc[t].wgCases

\* C26: the task list and the case list of a waitGroup have the same length
\* and case i is the Done of task i; an iteration of wait() removes the one
\* entry that was selected, whose task is done, and keeps the others in
\* order; the lists only shrink during wait(), one entry for each iteration,
\* so that wait() makes no more iterations than entries were added.
C26_WaitGroup ==
    /\ []WaitGroupInv
    /\ [][\A t \in Allocated : OneRemoved(t)]_vars

\* Par(X, Y, W) has taken Y, the second of three entries, out of its lists;
\* the entries of X and W are left, in this order
C26_Witness ==
    \E t \in TasksFor("ParXYW") :
        /\ pc[t] = "wgErr"
        /\ loc[t].cur = TaskOf("Y")
        /\ loc[t].wgTasks = << TaskOf("X"), TaskOf("W") >>
        /\ loc[t].wgCases = << TaskOf("X"), TaskOf("W") >>

\* the error the function of task u ended with: returned, or the payload of
\* its panic
Cause(u) ==
    IF loc[u].exit.act = "ret" THEN loc[u].exit.ret
    ELSE IF loc[u].exit.pan.kind = "error" THEN loc[u].exit.pan.e
    ELSE IF loc[u].exit.pan.kind = "nil" THEN PanicNilError
    ELSE NoErr
\* the functions task u asks for
Asked(u) == { Args(u)[i] : i \in 1..Len(Args(u)) }
\* the error e from its layer i on
From(e, i) == SubSeq(e, i, Len(e))
\* layer i of the final error of task t is the wrapper of a task u on the
\* path from t: u is done with the rest of the error from i on, its function
\* ended with the rest from i + 1 on, which, unless it is the original
\* error, is the final error of a task that u asked for
PathTask(t, i, u) ==
    LET e == Err(t)
    IN  /\ i = 1 => u = t
        /\ IsDone(u)
        /\ Err(u) = From(e, i)
        /\ \E tag \in {"finished", "panicked"} :
             e[i] = Layer(tag, ShortName(tk[u].fun), "")
        /\ Cause(u) = From(e, i + 1)
        /\ i < Len(e) - 1 =>
             \E v \in Allocated :
                 /\ tk[v].fun \in Asked(u)
                 /\ IsDone(v)
                 /\ Err(v) = From(e, i + 1)
Chained(t) ==
    LET e == Err(t)
    IN  /\ e[Len(e)].tag \in {"base", "panicval"}
        /\ ErrorsIs(e, From(e, Len(e)))
        /\ \A i \in 1..(Len(e) - 1) : \E u \in Allocated : PathTask(t, i, u)

\* C27: the final error of a task is the original error (the last layer)
\* under one wrapper for each task of a path from that task down to the task
\* whose function made the error, each task of the path having asked for the
\* next one and ended with its final error; the wrapper of the task itself is
\* the outermost, and Run returns the final error of the root.
C27_ErrorChain ==
    /\ \A t \in Allocated : IsDone(t) /\ Err(t) # NoErr => Chained(t)
    /\ RunReturned => loc[MainThread].val = Err(TaskOf(prog.root))

\* Run(A) of the diamond has returned the error of D under the wrappers of
\* D, B, the Par closure and A, from the inside out
C27_Witness ==
    /\ prog.root = "A"
    /\ RunReturned
    /\ loc[MainThread].val =
          Wrap("panicked", ShortName("A"),
            Wrap("finished", ShortName("ParBC"),
              Wrap("panicked", ShortName("B"),
                Wrap("finished", ShortName("D"), NewErr("D")))))
    /\ Err(TaskOf("B")) = From(loc[MainThread].val, 3)

\* the Done and Err of the inside view of task t are those of the context
\* of the group, whatever the state of the task
InsideIsContext(t) ==
    /\ insideDone(t) <=> ctxDone
    /\ insideErr(t) = IF ctxDone THEN Canceled ELSE NoErr
    /\ IsDone(t) /\ ~ctxDone => ~insideDone(t) /\ insideErr(t) = NoErr
\* a function that waits for Done of its inside view can go on exactly when
\* the context of the group is cancelled; its own Done is not closed then
ReleasedByContext(t) ==
    pc[t] = "ctxWait" =>
        /\ ~IsDone(t)
        /\ ENABLED ctxWait(t) <=> ctxDone
\* Task() of the inside view is Task() of the group: what the function got
\* is the entry of the registry of the group
InsideTaskIsGroups(t) ==
    pc[t] \in {"TaskUnlock", "TaskGo", "waitDone", "waitErr"} =>
        /\ loc[t].ret = TaskOf(loc[t].callee)
        /\ mutex = t <=> pc[t] \in {"TaskUnlock", "TaskGo"}

\* C28: the Done and Err a task function sees on its handle are those of the
\* context of the group and never the task's own; Task() on the handle is
\* the group's; a function waiting on Done of its handle goes on when, and
\* only when, the context of the group is cancelled, its own Done being open.
C28_InsideView ==
    \A t \in Allocated :
        /\ InsideIsContext(t)
        /\ ReleasedByContext(t)
        /\ InsideTaskIsGroups(t)

\* the function S waits on its handle; the context was cancelled, its own
\* Done is not closed, and it can go on
C28_Witness ==
    \E t \in TasksFor("S") :
        /\ pc[t] = "ctxWait"
        /\ ctxDone
        /\ insideDone(t)
        /\ ~IsDone(t)
        /\ ENABLED ctxWait(t)

\* the functions that f asks for, directly or through at most n others
RECURSIVE Below(_, _)
Below(f, n) ==
    IF n = 0 THEN {}
    ELSE LET asked == { Body[f].args[i] : i \in 1..Len(Body[f].args) }
         IN  asked \cup UNION { Below(g, n - 1) : g \in asked }
\* the functions of the program
Reachable == { prog.root } \cup Below(prog.root, MaxTasks)
\* no function of the program waits, directly or not, for itself
Acyclic == \A f \in Reachable : f \notin Below(f, MaxTasks)
\* every function of the program returns (or panics) once the tasks it
\* waits for are done: none waits for anything else
Returning == \A f \in Reachable : Body[f].kind # "CtxWait"

\* C29: when no function of the program waits for itself through others and
\* every function returns once the tasks it waits for are done, then, the
\* scheduler taking a step as long as one can be taken, every task created
\* closes its Done and Run returns.
C29_Progress ==
    /\ \A t \in TaskIds :
         (Acyclic /\ Returning /\ t \in Allocated) ~> IsDone(t)
    /\ (Acyclic /\ Returning) ~> RunReturned

\* Run(Par(Ser(Nop0, Nop1), Par(Nop0, Nop1))) has returned and the five
\* tasks it created are done
C29_Witness ==
    /\ prog.root = "ParSerPar"
    /\ Acyclic
    /\ Returning
    /\ RunReturned
    /\ nextTask = 6
    /\ \A t \in Allocated : IsDone(t)

====
